---------------------------- MODULE Spec2Model ----------------------------
(***************************************************************************)
(* Scalar-multiplication core of libff: wNAF encoding and single-base      *)
(* windowed exponentiation (wnaf.tcc), fixed-base window tables, the three *)
(* multi-scalar multiplication strategies, the chunked driver, the         *)
(* mixed-addition preprocessor and batch_to_special (multiexp.tcc).        *)
(*                                                                         *)
(* The group is the cyclic group Z_Order written additively; a group       *)
(* element is its discrete logarithm with respect to GroupT::one().        *)
(* bigint<n> is an unsigned integer of NumLimbs limbs of LimbBits bits.    *)
(***************************************************************************)
EXTENDS Integers, Sequences, FiniteSets, TLC

VARIABLES
    pc,                 \* position of the call being modelled
    window_size,        \* argument window_size / window
    scalar,             \* argument scalar / pow (a bigint<n>)
    base,               \* argument base / g (a group element)
    scalar_bits,        \* argument scalar_bits of opt_window_wnaf_exp
    wnaf_window_table,  \* T::wnaf_window_table of the group
    naf,                \* std::vector<long> returned by find_wnaf
    scalar_size,        \* argument scalar_size of the fixed-base routines
    powers_of_g,        \* window_table<T> returned by get_window_table
    vec,                \* the vector batch_to_special works on
    vec0,               \* that vector as it was before the call
    bases,              \* the bases a multi-exponentiation is called with
    exponents,          \* the scalars it is called with
    method,             \* template parameter Method
    chunks,             \* argument chunks
    entry,              \* the routine called: multi_exp or the mixed-addition one
    dflt,               \* the value of a default-constructed T
    g,                  \* the bases multi_exp works on
    p,                  \* the scalars multi_exp works on
    acc,                \* acc of multi_exp_with_mixed_addition
    partial,            \* partial of multi_exp
    pending,            \* the chunks whose loop iteration has not run yet
    fixed_base_exp_window_table,  \* T::fixed_base_exp_window_table of the group
    num_scalars,        \* argument num_scalars of get_exp_window_size
    lowmem,             \* whether the build defines LOWMEM
    bdlo,               \* the locals of method BDLO12: length, c, num_groups, k,
                        \* result, result_nonzero
    windows,            \* history: the values of k the loop body ran with, in order
    bos,                \* the locals of method bos_coster: opt_q, g, opt_result,
                        \* and whether the loop was left
    ret                 \* what the call returned

wnafVars == <<window_size, scalar, base, scalar_bits, wnaf_window_table, naf>>
fixedVars == <<scalar_size, powers_of_g>>
specialVars == <<vec, vec0>>
inputVars == <<bases, exponents, method, chunks, dflt>>
msmVars == <<inputVars, entry, g, p, acc, partial, pending>>

winVars == <<fixed_base_exp_window_table, num_scalars, lowmem>>
loopVars == <<bdlo, windows, bos>>

vars == <<pc, wnafVars, fixedVars, specialVars, msmVars, winVars, loopVars, ret>>

---------------------------------------------------------------------------
(* Bounds of the model *)

\* largest window width drawn as an input
MaxWindow == 2

(* Parameters of the program, scaled *)

\* GMP_NUMB_BITS: bits of one limb
LimbBits == 4
\* template parameter n: limbs of a bigint<n>
NumLimbs == 2
\* GroupT::order()
Order == 13

Pow2(k) == 2 ^ k

\* bigint<n>::max_bits()
max_bits == NumLimbs * LimbBits

BigInts == 0 .. (Pow2(max_bits) - 1)

\* the bases drawn as inputs
BaseSet == {0, 1, 5}

---------------------------------------------------------------------------
(* Group capability: Z_Order *)

G == 0 .. (Order - 1)

zero == 0

Add(x, y) == (x + y) % Order

Neg(x) == (Order - x) % Order

Sub(x, y) == Add(x, Neg(y))

dbl(x) == Add(x, x)

\* scalar * base of the group (generic scalar multiplication)
ScalarMul(s, x) == (s * x) % Order

---------------------------------------------------------------------------
(* bigint<n> *)

RECURSIVE num_bits(_)
num_bits(x) == IF x = 0 THEN 0 ELSE 1 + num_bits(x \div 2)

test_bit(x, bitno) == IF bitno >= max_bits THEN FALSE ELSE (x \div Pow2(bitno)) % 2 = 1

\* c.data[0]
Limb0(c) == c % Pow2(LimbBits)

\* mpn_sub_1(c.data, c.data, n, u): the borrow out of the top limb is dropped
mpn_sub_1(c, u) == (c - u) % Pow2(max_bits)

\* mpn_add_1(c.data, c.data, n, u): the carry out of the top limb is dropped
mpn_add_1(c, u) == (c + u) % Pow2(max_bits)

\* mpn_rshift(c.data, c.data, n, 1)
mpn_rshift1(c) == c \div 2

---------------------------------------------------------------------------
(* wnaf.tcc: find_wnaf *)

\* a digit taken from the low w bits only
WnafDigitNarrow(w, c) ==
    IF Limb0(c) % 2 = 1
    THEN LET u == Limb0(c) % Pow2(w)
         IN  IF u > Pow2(w - 1) THEN u - Pow2(w) ELSE u
    ELSE 0

\* a digit made negative from 2^(w-1) on
WnafDigitLowThreshold(w, c) ==
    IF Limb0(c) % 2 = 1
    THEN LET u == Limb0(c) % Pow2(w + 1)
         IN  IF u > Pow2(w - 1) THEN u - Pow2(w + 1) ELSE u
    ELSE 0

\* the digit u of one iteration of the loop of find_wnaf
WnafDigit(w, c) ==
    IF Limb0(c) % 2 = 1
    THEN LET u == Limb0(c) % Pow2(w + 1)
         IN  IF u > Pow2(w) THEN u - Pow2(w + 1) ELSE u
    ELSE 0

\* c after the digit u was taken out of it, before the shift
WnafTake(c, u) ==
    IF u > 0 THEN mpn_sub_1(c, u)
    ELSE IF u < 0 THEN mpn_add_1(c, -u)
    ELSE c

RECURSIVE WnafLoop(_, _, _, _)
WnafLoop(w, c, j, res) ==
    IF c = 0 THEN res
    ELSE LET u == WnafDigit(w, c)
         IN  WnafLoop(w, mpn_rshift1(WnafTake(c, u)), j + 1,
                      [res EXCEPT ![j + 1] = u])

\* find_wnaf(window_size, scalar): res[j] of the code is find_wnaf(..)[j+1]
find_wnaf(w, s) == WnafLoop(w, s, 0, [i \in 1 .. (max_bits + 1) |-> 0])

---------------------------------------------------------------------------
(* wnaf.tcc: fixed_window_wnaf_exp *)

RECURSIVE WnafTable(_, _, _, _)
WnafTable(i, size, tmp, d) ==
    IF i >= size THEN <<>>
    ELSE <<tmp>> \o WnafTable(i + 1, size, Add(tmp, d), d)

\* table[i] of the code is OddTable(..)[i+1]
OddTable(w, b) == WnafTable(0, Pow2(w - 1), b, dbl(b))

Abs(d) == IF d < 0 THEN -d ELSE d

RECURSIVE WnafEval(_, _, _, _, _)
WnafEval(digits, table, i, res, found_nonzero) ==
    IF i < 1 THEN res
    ELSE LET r1 == IF found_nonzero THEN dbl(res) ELSE res
             d  == digits[i]
             r2 == IF d = 0 THEN r1
                   ELSE IF d > 0 THEN Add(r1, table[(d \div 2) + 1])
                   ELSE Sub(r1, table[((-d) \div 2) + 1])
         IN  WnafEval(digits, table, i - 1, r2, found_nonzero \/ d # 0)

fixed_window_wnaf_exp(w, b, s) ==
    LET digits == find_wnaf(w, s)
    IN  WnafEval(digits, OddTable(w, b), Len(digits), zero, FALSE)

---------------------------------------------------------------------------
(* wnaf.tcc: opt_window_wnaf_exp *)

\* a scan that stops at the first threshold that fits, from the front
RECURSIVE BestFromFront(_, _, _)
BestFromFront(table, bits, i) ==
    IF i < 1 THEN 0
    ELSE LET lower == BestFromFront(table, bits, i - 1)
         IN  IF lower > 0 THEN lower
             ELSE IF bits >= table[i] THEN i ELSE 0

\* the scan for best: from the last entry of the table down
RECURSIVE BestFrom(_, _, _)
BestFrom(table, bits, i) ==
    IF i < 1 THEN 0
    ELSE IF bits >= table[i] THEN i
    ELSE BestFrom(table, bits, i - 1)

BestWindow(table, bits) == BestFrom(table, bits, Len(table))

opt_window_wnaf_exp(table, b, s, bits) ==
    LET best == BestWindow(table, bits)
    IN  IF best > 0 THEN fixed_window_wnaf_exp(best, b, s)
        ELSE ScalarMul(s, b)

---------------------------------------------------------------------------
(* Specification SpecWnaf: find_wnaf and fixed_window_wnaf_exp on every     *)
(* window_size, scalar and base of the bounded sets.                        *)

NoNaf == <<>>
NoRet == [best |-> 0, val |-> 0]

\* the variables of the routines a specification does not exercise
FixedIdle == scalar_size = 0 /\ powers_of_g = <<>>
SpecialIdle == vec = <<>> /\ vec0 = <<>>
WinIdle == fixed_base_exp_window_table = <<>> /\ num_scalars = 0 /\ lowmem = FALSE
NoBdlo == [length |-> 0, c |-> 0, num_groups |-> 0, k |-> 0,
           result |-> 0, result_nonzero |-> FALSE]
NoBos == [opt_q |-> <<>>, g |-> <<>>, opt_result |-> 0, done |-> FALSE]
LoopIdle == bdlo = NoBdlo /\ windows = <<>> /\ bos = NoBos
MsmIdle ==
    /\ bases = <<>> /\ exponents = <<>> /\ method = "naive" /\ chunks = 1
    /\ dflt = 0 /\ entry = "none" /\ g = <<>> /\ p = <<>> /\ acc = 0
    /\ partial = <<>> /\ pending = {}

InitWnaf ==
    /\ pc = "call"
    /\ WinIdle
    /\ LoopIdle
    /\ window_size \in 1 .. MaxWindow
    /\ scalar \in BigInts
    /\ base \in BaseSet
    /\ scalar_bits = 0
    /\ wnaf_window_table = <<>>
    /\ naf = NoNaf
    /\ FixedIdle
    /\ SpecialIdle
    /\ MsmIdle
    /\ ret = NoRet

FindWnaf ==
    /\ pc = "call"
    /\ naf' = find_wnaf(window_size, scalar)
    /\ pc' = "encoded"
    /\ UNCHANGED <<winVars, loopVars, window_size, scalar, base, scalar_bits, wnaf_window_table, ret,
                   fixedVars, specialVars, msmVars>>

FixedWindowWnafExp ==
    /\ pc = "encoded"
    /\ ret' = [best |-> window_size, val |-> fixed_window_wnaf_exp(window_size, base, scalar)]
    /\ pc' = "done"
    /\ UNCHANGED <<winVars, loopVars, wnafVars, fixedVars, specialVars, msmVars>>

NextWnaf == FindWnaf \/ FixedWindowWnafExp

SpecWnaf == InitWnaf /\ [][NextWnaf]_vars

---------------------------------------------------------------------------
(* Claims about find_wnaf *)

RECURSIVE WnafSumFrom(_, _)
WnafSumFrom(digits, j) ==
    IF j > Len(digits) THEN 0
    ELSE digits[j] * Pow2(j - 1) + WnafSumFrom(digits, j + 1)

\* the integer the digits stand for: the sum of d_j * 2^j
WnafSum(digits) == WnafSumFrom(digits, 1)

DigitsOddAndSmall(w, digits) ==
    \A j \in 1 .. Len(digits) :
        digits[j] # 0 => (digits[j] % 2 = 1 /\ Abs(digits[j]) < Pow2(w))

\* C5: for every window width and every scalar of n limbs, the digits of
\* find_wnaf sum (with weights 2^j) to the scalar, and every non-zero digit is
\* odd and smaller than 2^w in absolute value.
C5_RoundTrip ==
    pc # "call" =>
        /\ WnafSum(naf) = scalar
        /\ DigitsOddAndSmall(window_size, naf)

---------------------------------------------------------------------------
(* Specification SpecOpt: opt_window_wnaf_exp on every base, scalar,        *)
(* scalar_bits and wnaf_window_table of the bounded sets.                   *)

\* the tables drawn as T::wnaf_window_table (entry w-1 is the threshold of w)
WnafTables == {<<>>, <<3>>, <<1, 4>>, <<2, 4, 7>>, <<5, 2, 9>>}

InitOpt ==
    /\ pc = "call"
    /\ WinIdle
    /\ LoopIdle
    /\ window_size = 0
    /\ scalar \in BigInts
    /\ base \in BaseSet
    /\ scalar_bits \in 0 .. max_bits
    /\ wnaf_window_table \in WnafTables
    /\ naf = NoNaf
    /\ FixedIdle
    /\ SpecialIdle
    /\ MsmIdle
    /\ ret = NoRet

OptWindowWnafExp ==
    /\ pc = "call"
    /\ ret' = [best |-> BestWindow(wnaf_window_table, scalar_bits),
               val  |-> opt_window_wnaf_exp(wnaf_window_table, base, scalar, scalar_bits)]
    /\ pc' = "done"
    /\ UNCHANGED <<winVars, loopVars, wnafVars, fixedVars, specialVars, msmVars>>

NextOpt == OptWindowWnafExp

SpecOpt == InitOpt /\ [][NextOpt]_vars

\* the windows w whose threshold wnaf_window_table[w-1] is at most nbits
FittingWindows(table, nbits) == {w \in 1 .. Len(table) : table[w] <= nbits}

SetMax(S) == CHOOSE x \in S : \A y \in S : y <= x

\* C10: opt_window_wnaf_exp runs fixed_window_wnaf_exp with the largest window
\* whose threshold is at most nbits, and returns the generic scalar * base when
\* no threshold fits.
C10_LargestFittingWindow ==
    pc = "done" =>
        LET fit == FittingWindows(wnaf_window_table, scalar_bits)
        IN  IF fit = {}
            THEN ret = [best |-> 0, val |-> ScalarMul(scalar, base)]
            ELSE ret = [best |-> SetMax(fit),
                        val  |-> fixed_window_wnaf_exp(SetMax(fit), base, scalar)]

\* C10 witness: several thresholds fit and the chosen window is neither the
\* first nor the last of the table.
C10_Witness ==
    /\ pc = "done"
    /\ Cardinality(FittingWindows(wnaf_window_table, scalar_bits)) >= 2
    /\ ret.best = 2
    /\ Len(wnaf_window_table) = 3
    /\ ret.val # zero

---------------------------------------------------------------------------
(* multiexp.tcc: get_window_table and windowed_exp *)

\* FieldT: the scalars, as_bigint() of a field element is below the modulus
FieldT == 0 .. (Order - 1)

\* number of window chunks: (scalar_size+window-1)/window
Outerc(ssize, window) == (ssize + window - 1) \div window

\* last_in_window: 1ul << (scalar_size - (outerc-1)*window)
LastInWindow(ssize, window) == Pow2(ssize - (Outerc(ssize, window) - 1) * window)

\* one row powers_of_g[outer]: the entries below cur_in_window are filled by
\* repeated addition of gouter, the others keep the T::zero() they were built with
RECURSIVE TableRow(_, _, _, _, _)
TableRow(inner, cur_in_window, in_window, ginner, gouter) ==
    IF inner >= in_window THEN <<>>
    ELSE <<IF inner < cur_in_window THEN ginner ELSE zero>>
         \o TableRow(inner + 1, cur_in_window, in_window, Add(ginner, gouter), gouter)

RECURSIVE AddToSelf(_, _)
AddToSelf(x, times) == IF times = 0 THEN x ELSE AddToSelf(Add(x, x), times - 1)

RECURSIVE TableRows(_, _, _, _)
TableRows(outer, ssize, window, gouter) ==
    IF outer >= Outerc(ssize, window) THEN <<>>
    ELSE LET cur_in_window == IF outer = Outerc(ssize, window) - 1
                              THEN LastInWindow(ssize, window)
                              ELSE Pow2(window)
         IN  <<TableRow(0, cur_in_window, Pow2(window), zero, gouter)>>
             \o TableRows(outer + 1, ssize, window, AddToSelf(gouter, window))

\* powers_of_g[outer][inner] of the code is get_window_table(..)[outer+1][inner+1]
get_window_table(ssize, window, gen) == TableRows(0, ssize, window, gen)

\* the index of a chunk read at bit outer+i, the factor window forgotten
RECURSIVE WindowInnerNoStride(_, _, _, _)
WindowInnerNoStride(pow_val, outer, window, i) ==
    IF i >= window THEN 0
    ELSE (IF test_bit(pow_val, outer + i) THEN Pow2(i) ELSE 0)
         + WindowInnerNoStride(pow_val, outer, window, i + 1)

\* the index inner of one chunk: the bits outer*window .. outer*window+window-1
RECURSIVE WindowInner(_, _, _, _)
WindowInner(pow_val, outer, window, i) ==
    IF i >= window THEN 0
    ELSE (IF test_bit(pow_val, outer * window + i) THEN Pow2(i) ELSE 0)
         + WindowInner(pow_val, outer, window, i + 1)

RECURSIVE WindowedLoop(_, _, _, _, _, _)
WindowedLoop(outer, outerc, window, table, pow_val, res) ==
    IF outer >= outerc THEN res
    ELSE WindowedLoop(outer + 1, outerc, window, table, pow_val,
                      Add(res, table[outer + 1][WindowInner(pow_val, outer, window, 0) + 1]))

\* windowed_exp; oob is what the read of powers_of_g[0][0] yields when the
\* table has no row (a read past the end of an empty vector)
windowed_exp(ssize, window, table, pow_val, oob) ==
    LET res == IF Len(table) = 0 THEN oob ELSE table[1][1]
    IN  WindowedLoop(0, Outerc(ssize, window), window, table, pow_val, res)

---------------------------------------------------------------------------
(* Specification SpecFixed: get_window_table followed by windowed_exp.      *)

\* largest scalar_size drawn as an input
MaxScalarSize == 5

InitFixed ==
    /\ pc = "call"
    /\ WinIdle
    /\ LoopIdle
    /\ window_size \in 1 .. MaxWindow
    /\ scalar \in FieldT
    /\ base \in BaseSet
    /\ scalar_bits = 0
    /\ wnaf_window_table = <<>>
    /\ naf = NoNaf
    /\ scalar_size \in 0 .. MaxScalarSize
    /\ powers_of_g = <<>>
    /\ SpecialIdle
    /\ MsmIdle
    /\ ret = NoRet

GetWindowTable ==
    /\ pc = "call"
    /\ powers_of_g' = get_window_table(scalar_size, window_size, base)
    /\ pc' = "table"
    /\ UNCHANGED <<winVars, loopVars, wnafVars, scalar_size, specialVars, msmVars, ret>>

WindowedExp ==
    /\ pc = "table"
    /\ \E oob \in G :
          ret' = [best |-> window_size,
                  val  |-> windowed_exp(scalar_size, window_size, powers_of_g, scalar, oob)]
    /\ pc' = "done"
    /\ UNCHANGED <<winVars, loopVars, wnafVars, fixedVars, specialVars, msmVars>>

NextFixed == GetWindowTable \/ WindowedExp

SpecFixed == InitFixed /\ [][NextFixed]_vars

\* C6 as claimed: for every generator, scalar size, window and scalar,
\* windowed_exp on the table of get_window_table returns scalar * G.
C6_AnyScalar ==
    pc = "done" => ret.val = ScalarMul(scalar, base)

\* C6 amended: the same for a scalar size of at least one bit and a scalar
\* below 2^scalar_size.
C6_ScalarInSize ==
    (pc = "done" /\ scalar_size >= 1 /\ scalar < Pow2(scalar_size))
        => ret.val = ScalarMul(scalar, base)

\* C6 witness: several chunks, the top chunk shorter than the window, and a
\* scalar of full size.
C6_Witness ==
    /\ pc = "done"
    /\ Outerc(scalar_size, window_size) >= 2
    /\ scalar_size % window_size # 0
    /\ num_bits(scalar) = scalar_size
    /\ ret.val = ScalarMul(scalar, base)
    /\ ret.val # zero

---------------------------------------------------------------------------
(* multiexp.tcc: batch_to_special.  Here a group element carries its       *)
(* representation: v is the element, special says whether the              *)
(* representation is the special (affine) one.                             *)

Elem(v, special) == [v |-> v, special |-> special]

is_zero(x) == x.v = zero

is_special(x) == x.special

to_special(x) == Elem(x.v, TRUE)

\* T::batch_to_special_all_non_zeros: normalises every element of the slice
batch_to_special_all_non_zeros(s) == [i \in 1 .. Len(s) |-> to_special(s[i])]

\* the first loop: the non-zero elements, in order
NonZeroVec(v) == SelectSeq(v, LAMBDA x : ~is_zero(x))

\* the zero elements are left as they are, no special zero written
RECURSIVE WriteBackNonZeroOnly(_, _, _, _)
WriteBackNonZeroOnly(v, i, non_zero_vec, it) ==
    IF i > Len(v) THEN v
    ELSE IF ~is_zero(v[i])
         THEN WriteBackNonZeroOnly([v EXCEPT ![i] = non_zero_vec[it]], i + 1, non_zero_vec, it + 1)
         ELSE WriteBackNonZeroOnly(v, i + 1, non_zero_vec, it)

\* the second loop: it walks non_zero_vec while i walks vec
RECURSIVE WriteBack(_, _, _, _)
WriteBack(v, i, non_zero_vec, it) ==
    IF i > Len(v) THEN v
    ELSE IF ~is_zero(v[i])
         THEN WriteBack([v EXCEPT ![i] = non_zero_vec[it]], i + 1, non_zero_vec, it + 1)
         ELSE WriteBack([v EXCEPT ![i] = to_special(Elem(zero, FALSE))], i + 1,
                        non_zero_vec, it)

batch_to_special(v) ==
    WriteBack(v, 1, batch_to_special_all_non_zeros(NonZeroVec(v)), 1)

---------------------------------------------------------------------------
(* Specification SpecSpecial: batch_to_special on every vector of the       *)
(* bounded sets.                                                            *)

\* longest vector drawn as an input
MaxLen == 3

SeqsUpTo(S, n) == UNION {[1 .. k -> S] : k \in 0 .. n}

Elems == {Elem(v, sp) : v \in BaseSet, sp \in BOOLEAN}

WnafIdle ==
    /\ window_size = 0
    /\ scalar = 0
    /\ base = zero
    /\ scalar_bits = 0
    /\ wnaf_window_table = <<>>
    /\ naf = NoNaf

InitSpecial ==
    /\ pc = "call"
    /\ WinIdle
    /\ LoopIdle
    /\ WnafIdle
    /\ FixedIdle
    /\ vec \in SeqsUpTo(Elems, MaxLen)
    /\ vec0 = vec
    /\ MsmIdle
    /\ ret = NoRet

BatchToSpecial ==
    /\ pc = "call"
    /\ vec' = batch_to_special(vec)
    /\ pc' = "done"
    /\ UNCHANGED <<winVars, loopVars, wnafVars, fixedVars, vec0, msmVars, ret>>

NextSpecial == BatchToSpecial

SpecSpecial == InitSpecial /\ [][NextSpecial]_vars

\* C7: after batch_to_special the vector has the length it had, every element
\* is special and equal, as a group element, to the element that was at its
\* position; identity elements have become the special identity.
C7_BatchToSpecial ==
    pc = "done" =>
        /\ Len(vec) = Len(vec0)
        /\ \A i \in 1 .. Len(vec) :
              /\ is_special(vec[i])
              /\ vec[i].v = vec0[i].v
              /\ is_zero(vec0[i]) => vec[i] = to_special(Elem(zero, FALSE))

\* C7 witness: the call ran on a vector holding a non-special identity, a
\* non-special non-identity element and a non-identity element after them.
C7_Witness ==
    /\ pc = "done"
    /\ \E i, j, k \in 1 .. Len(vec0) :
          /\ i < j /\ j < k
          /\ is_zero(vec0[i]) /\ ~is_special(vec0[i])
          /\ ~is_zero(vec0[j]) /\ ~is_special(vec0[j])
          /\ ~is_zero(vec0[k]) /\ vec0[k].v # vec0[j].v
    /\ \A i \in 1 .. Len(vec) : is_special(vec[i])

---------------------------------------------------------------------------
(* multiexp.tcc: multi_exp_inner, methods naive and naive_plain *)

\* width of size_t, scaled
SizeBits == 16

\* a value of type size_t: unsigned arithmetic wraps
SizeT(x) == x % Pow2(SizeBits)

\* T::wnaf_window_table of the group the multi-exponentiation runs on
MsmWnafTable == <<2, 4>>

\* the outcome of a call: it ended in a failed ASSERT, or returned val
Returned(v) == [abort |-> FALSE, val |-> v]
Aborted == [abort |-> TRUE, val |-> zero]

RECURSIVE NaiveLoop(_, _, _, _)
NaiveLoop(vec_, scalars, i, result) ==
    IF i > Len(vec_) THEN result
    ELSE NaiveLoop(vec_, scalars, i + 1,
                   Add(result, opt_window_wnaf_exp(MsmWnafTable, vec_[i], scalars[i],
                                                   num_bits(scalars[i]))))

\* method naive: scalars holds what scalar_it read, scalar_len the distance
\* scalar_end - scalar_start
multi_exp_inner_naive(vec_, scalars, scalar_len) ==
    IF Len(vec_) # scalar_len THEN Aborted
    ELSE Returned(NaiveLoop(vec_, scalars, 1, zero))

RECURSIVE NaivePlainLoop(_, _, _, _)
NaivePlainLoop(vec_, scalars, i, result) ==
    IF i > Len(vec_) THEN result
    ELSE NaivePlainLoop(vec_, scalars, i + 1, Add(result, ScalarMul(scalars[i], vec_[i])))

multi_exp_inner_naive_plain(vec_, scalars, scalar_len) ==
    IF Len(vec_) # scalar_len THEN Aborted
    ELSE Returned(NaivePlainLoop(vec_, scalars, 1, zero))

---------------------------------------------------------------------------
(* multiexp.tcc: multi_exp_inner, method BDLO12 *)

RECURSIVE Log2From(_, _)
Log2From(n, k) == IF Pow2(k) >= n THEN k ELSE Log2From(n, k + 1)

\* log2(n) of utils: ceil(log2(n)), 1ul<<log2(n) is the smallest power of 2 not less than n
log2(n) == Log2From(n, 0)

\* a width without the - 2 inside the parentheses
WindowWidthThird(length) ==
    LET log2_length == log2(length)
    IN  SizeT(log2_length - SizeT(log2_length \div 3))

\* c = log2_length - (log2_length / 3 - 2), in size_t
WindowWidth(length) ==
    LET log2_length == log2(length)
    IN  SizeT(log2_length - SizeT(log2_length \div 3 - 2))

RECURSIVE MaxNumBits(_, _, _, _)
MaxNumBits(bn_exponents, length, i, nbits) ==
    IF i >= length THEN nbits
    ELSE MaxNumBits(bn_exponents, length, i + 1,
                    IF num_bits(bn_exponents[i + 1]) > nbits
                    THEN num_bits(bn_exponents[i + 1]) ELSE nbits)

NumGroups(nbits, c) == (nbits + c - 1) \div c

\* id: the c bits of the exponent from bit k*c on
RECURSIVE BucketId(_, _, _, _)
BucketId(e, k, c, j) ==
    IF j >= c THEN 0
    ELSE (IF test_bit(e, k * c + j) THEN Pow2(j) ELSE 0) + BucketId(e, k, c, j + 1)

\* the loop over i that adds bases[i] into buckets[id]
RECURSIVE FillBuckets(_, _, _, _, _, _)
FillBuckets(bases_, bn_exponents, k, c, i, b) ==
    IF i >= Len(bases_) THEN b
    ELSE LET id == BucketId(bn_exponents[i + 1], k, c, 0)
         IN  IF id = 0
             THEN FillBuckets(bases_, bn_exponents, k, c, i + 1, b)
             ELSE IF b.bucket_nonzero[id]
             THEN FillBuckets(bases_, bn_exponents, k, c, i + 1,
                              [b EXCEPT !.buckets[id] = Add(@, bases_[i + 1])])
             ELSE FillBuckets(bases_, bn_exponents, k, c, i + 1,
                              [b EXCEPT !.buckets[id] = bases_[i + 1],
                                        !.bucket_nonzero[id] = TRUE])

\* the loop over i from (1u << c) - 1 down to 1
RECURSIVE BucketSum(_, _, _)
BucketSum(b, i, st) ==
    IF i <= 0 THEN st
    ELSE LET s1 == IF b.bucket_nonzero[i]
                   THEN IF st.running_sum_nonzero
                        THEN [st EXCEPT !.running_sum = Add(@, b.buckets[i])]
                        ELSE [st EXCEPT !.running_sum = b.buckets[i],
                                        !.running_sum_nonzero = TRUE]
                   ELSE st
             s2 == IF s1.running_sum_nonzero
                   THEN IF s1.result_nonzero
                        THEN [s1 EXCEPT !.result = Add(@, s1.running_sum)]
                        ELSE [s1 EXCEPT !.result = s1.running_sum,
                                        !.result_nonzero = TRUE]
                   ELSE s1
         IN  BucketSum(b, i - 1, s2)

RECURSIVE DblTimes(_, _)
DblTimes(x, times) == IF times = 0 THEN x ELSE DblTimes(dbl(x), times - 1)

\* one iteration of the loop over k; res is (result, result_nonzero) and
\* default is the value of a default-constructed T
BDLO12Window(bases_, bn_exponents, c, k, default, res) ==
    LET doubled == IF res.result_nonzero THEN DblTimes(res.result, c) ELSE res.result
        b == FillBuckets(bases_, bn_exponents, k, c, 0,
                         [buckets        |-> [id \in 0 .. (Pow2(c) - 1) |-> default],
                          bucket_nonzero |-> [id \in 0 .. (Pow2(c) - 1) |-> FALSE]])
        st == BucketSum(b, Pow2(c) - 1,
                        [running_sum |-> default, running_sum_nonzero |-> FALSE,
                         result |-> doubled, result_nonzero |-> res.result_nonzero])
    IN  [result |-> st.result, result_nonzero |-> st.result_nonzero]

\* for (size_t k = num_groups - 1; k <= num_groups; k--)
RECURSIVE BDLO12Loop(_, _, _, _, _, _, _)
BDLO12Loop(bases_, bn_exponents, c, num_groups, k, default, res) ==
    IF k <= num_groups
    THEN BDLO12Loop(bases_, bn_exponents, c, num_groups, SizeT(k - 1), default,
                    BDLO12Window(bases_, bn_exponents, c, k, default, res))
    ELSE res

\* T result; is default-constructed and returned as it is when no window
\* assigned it
multi_exp_inner_BDLO12(bases_, exps, default) ==
    LET length == Len(bases_)
        c == WindowWidth(length)
        num_groups == NumGroups(MaxNumBits(exps, length, 0, 0), c)
    IN  Returned(BDLO12Loop(bases_, exps, c, num_groups, SizeT(num_groups - 1), default,
                            [result |-> default, result_nonzero |-> FALSE]).result)

---------------------------------------------------------------------------
(* multiexp.tcc: multi_exp_inner, method bos_coster.  opt_q[pos] and       *)
(* g[idx] of the code are opt_q[pos+1] and g[idx+1] here.                  *)

ordered_exponent(idx, r) == [idx |-> idx, r |-> r]

\* ordered_exponent::operator<
Less(a, b) == a.r < b.r

\* the max-heap property on the first len nodes
IsHeap(q, len) ==
    \A pos \in 1 .. (len - 1) : ~Less(q[((pos - 1) \div 2) + 1], q[pos + 1])

Arrangements(n) == {f \in [1 .. n -> 1 .. n] : \A i, j \in 1 .. n : f[i] = f[j] => i = j}

\* std::make_heap: any arrangement of the nodes that is a max-heap
MakeHeaps(q) ==
    {h \in {[i \in 1 .. Len(q) |-> q[f[i]]] : f \in Arrangements(Len(q))} :
        IsHeap(h, Len(h))}

\* mpn_sub_n(a.r.data, a.r.data, b.r.data, n)
mpn_sub_n(a, b) == (a - b) % Pow2(max_bits)

Swap(q, i, j) == [q EXCEPT ![i] = q[j], ![j] = q[i]]

\* heapify A down: to a leaf, each time below the larger child
RECURSIVE HeapifyDown(_, _)
HeapifyDown(q, a_pos) ==
    IF 2 * a_pos + 2 < Len(q)
    THEN IF Less(q[2 * a_pos + 2], q[2 * a_pos + 3])
         THEN HeapifyDown(Swap(q, a_pos + 1, 2 * a_pos + 3), 2 * a_pos + 2)
         ELSE HeapifyDown(Swap(q, a_pos + 1, 2 * a_pos + 2), 2 * a_pos + 1)
    ELSE [opt_q |-> q, a_pos |-> a_pos]

\* heapify A up
RECURSIVE HeapifyUp(_, _)
HeapifyUp(q, a_pos) ==
    IF a_pos > 0 /\ Less(q[((a_pos - 1) \div 2) + 1], q[a_pos + 1])
    THEN HeapifyUp(Swap(q, a_pos + 1, ((a_pos - 1) \div 2) + 1), (a_pos - 1) \div 2)
    ELSE q

\* A pushed down to a leaf and left there
ReheapifyDownOnly(q) == HeapifyDown(q, 0).opt_q

Reheapify(q) ==
    LET down == HeapifyDown(q, 0)
    IN  HeapifyUp(down.opt_q, down.a_pos)

\* position of b: the larger child of the root
LargerChild(q) == IF Less(q[2], q[3]) THEN 3 ELSE 2

\* an iteration whose reduction adds g[b.idx] into g[a.idx]
BosCosterStepWrongBase(st) ==
    LET a == st.opt_q[1]
        bpos == LargerChild(st.opt_q)
        b == st.opt_q[bpos]
        abits == num_bits(a.r)
        bbits == num_bits(b.r)
        limit == IF SizeT(abits - bbits) >= 20 THEN 20 ELSE SizeT(abits - bbits)
        direct == Add(st.opt_result,
                      opt_window_wnaf_exp(MsmWnafTable, st.g[a.idx + 1], a.r, abits))
    IN  IF b.r = 0
        THEN [st EXCEPT !.opt_result = direct, !.done = TRUE]
        ELSE IF bbits < Pow2(limit)
        THEN [st EXCEPT !.opt_result = direct,
                        !.opt_q = Reheapify([st.opt_q EXCEPT ![1].r = 0])]
        ELSE [st EXCEPT !.g[a.idx + 1] = Add(@, st.g[b.idx + 1]),
                        !.opt_q = Reheapify([st.opt_q EXCEPT ![1].r = mpn_sub_n(a.r, b.r)])]

\* an iteration whose direct finish leaves a.r as it is
BosCosterStepNoClear(st) ==
    LET a == st.opt_q[1]
        bpos == LargerChild(st.opt_q)
        b == st.opt_q[bpos]
        abits == num_bits(a.r)
        bbits == num_bits(b.r)
        limit == IF SizeT(abits - bbits) >= 20 THEN 20 ELSE SizeT(abits - bbits)
        direct == Add(st.opt_result,
                      opt_window_wnaf_exp(MsmWnafTable, st.g[a.idx + 1], a.r, abits))
    IN  IF b.r = 0
        THEN [st EXCEPT !.opt_result = direct, !.done = TRUE]
        ELSE IF bbits < Pow2(limit)
        THEN [st EXCEPT !.opt_result = direct,
                        !.opt_q = Reheapify(st.opt_q)]
        ELSE [st EXCEPT !.g[b.idx + 1] = Add(@, st.g[a.idx + 1]),
                        !.opt_q = Reheapify([st.opt_q EXCEPT ![1].r = mpn_sub_n(a.r, b.r)])]

\* one iteration of while (true); st is (opt_q, g, opt_result, done)
BosCosterStep(st) ==
    LET a == st.opt_q[1]
        bpos == LargerChild(st.opt_q)
        b == st.opt_q[bpos]
        abits == num_bits(a.r)
        bbits == num_bits(b.r)
        limit == IF SizeT(abits - bbits) >= 20 THEN 20 ELSE SizeT(abits - bbits)
        direct == Add(st.opt_result,
                      opt_window_wnaf_exp(MsmWnafTable, st.g[a.idx + 1], a.r, abits))
    IN  IF b.r = 0
        THEN [st EXCEPT !.opt_result = direct, !.done = TRUE]
        ELSE IF bbits < Pow2(limit)
        THEN [st EXCEPT !.opt_result = direct,
                        !.opt_q = Reheapify([st.opt_q EXCEPT ![1].r = 0])]
        ELSE [st EXCEPT !.g[b.idx + 1] = Add(@, st.g[a.idx + 1]),
                        !.opt_q = Reheapify([st.opt_q EXCEPT ![1].r = mpn_sub_n(a.r, b.r)])]

RECURSIVE BosCosterLoop(_)
BosCosterLoop(st) == IF st.done THEN st ELSE BosCosterLoop(BosCosterStep(st))

\* the state the loop starts in, for the heap h that std::make_heap built:
\* an even-length input is padded with (T::zero(), 0)
BosCosterStart(vec_, h) ==
    LET vec_len == Len(vec_)
        padded == vec_len % 2 = 0
    IN  [opt_q |-> IF padded THEN Append(h, ordered_exponent(vec_len, 0)) ELSE h,
         g |-> IF padded THEN Append(vec_, zero) ELSE vec_,
         opt_result |-> zero,
         done |-> FALSE]

\* the outcomes of method bos_coster, one for each heap std::make_heap may build
multi_exp_inner_bos_coster(vec_, scalars, scalar_len) ==
    IF Len(vec_) = 0 THEN {Returned(zero)}
    ELSE IF Len(vec_) = 1 THEN {Returned(ScalarMul(scalars[1], vec_[1]))}
    ELSE IF Len(vec_) # scalar_len THEN {Aborted}
    ELSE {Returned(BosCosterLoop(BosCosterStart(vec_, h)).opt_result) :
             h \in MakeHeaps([i \in 1 .. Len(vec_) |-> ordered_exponent(i - 1, scalars[i])])}

---------------------------------------------------------------------------
(* multiexp.tcc: the dispatch on Method, multi_exp and                     *)
(* multi_exp_with_mixed_addition                                           *)

Methods == {"naive", "naive_plain", "BDLO12", "bos_coster"}

\* the outcomes of multi_exp_inner<T, FieldT, Method>
multi_exp_inner(m, vec_, scalars, scalar_len, default) ==
    IF m = "naive" THEN {multi_exp_inner_naive(vec_, scalars, scalar_len)}
    ELSE IF m = "naive_plain" THEN {multi_exp_inner_naive_plain(vec_, scalars, scalar_len)}
    ELSE IF m = "BDLO12" THEN {multi_exp_inner_BDLO12(vec_, scalars, default)}
    ELSE multi_exp_inner_bos_coster(vec_, scalars, scalar_len)

\* multi_exp calls the implementation directly
Direct(total, nchunks) == total < nchunks \/ nchunks = 1

\* the slice of chunk i: [i*one, (i+1)*one), the last chunk up to the end
ChunkBegin(i, total, nchunks) == i * (total \div nchunks)
ChunkEnd(i, total, nchunks) ==
    IF i = nchunks - 1 THEN total ELSE (i + 1) * (total \div nchunks)

ChunkOf(s, i, nchunks) ==
    SubSeq(s, ChunkBegin(i, Len(s), nchunks) + 1, ChunkEnd(i, Len(s), nchunks))

\* every iteration stores into the slot of its neighbour, the last into slot 0
PartialSlotShared(i) == IF i = 0 THEN 1 ELSE i

\* the slot of partial that chunk i is stored in: partial[i]
PartialSlot(i) == i + 1

\* final = final + partial[i], i ascending
RECURSIVE SumPartial(_, _, _)
SumPartial(partial_, i, final) ==
    IF i > Len(partial_) THEN final
    ELSE SumPartial(partial_, i + 1, Add(final, partial_[i]))

\* the loop of multi_exp_with_mixed_addition over (scalar_it, value_it);
\* st is (acc, p, g)
RECURSIVE ProcessScalarVector(_, _, _, _)
ProcessScalarVector(vec_, scalars, i, st) ==
    IF i > Len(scalars) THEN st
    ELSE IF scalars[i] = 0
         THEN ProcessScalarVector(vec_, scalars, i + 1, st)
         ELSE IF scalars[i] = 1
         THEN ProcessScalarVector(vec_, scalars, i + 1,
                                  [st EXCEPT !.acc = Add(@, vec_[i])])
         ELSE ProcessScalarVector(vec_, scalars, i + 1,
                                  [st EXCEPT !.p = Append(@, scalars[i]),
                                             !.g = Append(@, vec_[i])])

---------------------------------------------------------------------------
(* Specification SpecMsm: multi_exp and multi_exp_with_mixed_addition on    *)
(* bases and scalars of equal length, for every method and chunks.  The     *)
(* iterations of the loop over the chunks run in any order (MULTICORE:      *)
(* omp parallel for); the order 0, 1, 2, .. is the build without it.        *)

\* the (base, scalar) pairs the inputs are made of
PairSet == {<<1, 0>>, <<5, 1>>, <<1, 3>>, <<5, 12>>, <<0, 9>>}

\* the values drawn for a default-constructed T
DefaultSet == {zero, 1}

\* what scalar_it reads: past the end of the scalars it reads junk
ReadScalars(scalars, n, junk) ==
    [i \in 1 .. n |-> IF i <= Len(scalars) THEN scalars[i] ELSE junk]

JunkSet(vec_, scalars) == IF Len(scalars) < Len(vec_) THEN FieldT ELSE {0}

InitMsm ==
    /\ pc = "call"
    /\ WinIdle
    /\ LoopIdle
    /\ WnafIdle
    /\ FixedIdle
    /\ SpecialIdle
    /\ \E in \in SeqsUpTo(PairSet, MaxLen) :
          /\ bases = [i \in 1 .. Len(in) |-> in[i][1]]
          /\ exponents = [i \in 1 .. Len(in) |-> in[i][2]]
    /\ method \in Methods
    /\ chunks \in 1 .. (MaxLen + 1)
    /\ dflt \in DefaultSet
    /\ entry = "none"
    /\ g = <<>> /\ p = <<>> /\ acc = zero
    /\ partial = <<>> /\ pending = {}
    /\ ret = NoRet

\* multi_exp on (gv, pv): the direct call of the implementation, or the
\* start of the loop over the chunks; accv is added by the mixed-addition caller
Driver(gv, pv, plen, mixed, accv) ==
    /\ g' = gv
    /\ p' = pv
    /\ acc' = accv
    /\ IF Direct(Len(gv), chunks)
       THEN /\ \E out \in multi_exp_inner(method, gv, pv, plen, dflt) :
                 IF out.abort
                 THEN pc' = "abort" /\ ret' = ret
                 ELSE /\ pc' = "done"
                      /\ ret' = [best |-> 0,
                                 val |-> IF mixed THEN Add(accv, out.val) ELSE out.val]
            /\ UNCHANGED <<partial, pending>>
       ELSE /\ partial' = [i \in 1 .. chunks |-> zero]
            /\ pending' = 0 .. (chunks - 1)
            /\ pc' = "workers"
            /\ ret' = ret

MultiExp ==
    /\ pc = "call"
    /\ entry' = "multi_exp"
    /\ \E junk \in JunkSet(bases, exponents) :
          Driver(bases, ReadScalars(exponents, Len(bases), junk), Len(exponents),
                 FALSE, zero)
    /\ UNCHANGED <<winVars, loopVars, wnafVars, fixedVars, specialVars, inputVars>>

MultiExpWithMixedAddition ==
    /\ pc = "call"
    /\ entry' = "mixed"
    /\ IF Len(bases) # Len(exponents)
       THEN /\ pc' = "abort"
            /\ UNCHANGED <<g, p, acc, partial, pending, ret>>
       ELSE LET st == ProcessScalarVector(bases, exponents, 1,
                                          [acc |-> zero, p |-> <<>>, g |-> <<>>])
            IN  Driver(st.g, st.p, Len(st.p), TRUE, st.acc)
    /\ UNCHANGED <<winVars, loopVars, wnafVars, fixedVars, specialVars, inputVars>>

\* iteration i of the loop over the chunks
Worker(i) ==
    /\ pc = "workers"
    /\ i \in pending
    /\ \E out \in multi_exp_inner(method, ChunkOf(g, i, chunks), ChunkOf(p, i, chunks),
                                  Len(ChunkOf(p, i, chunks)), dflt) :
          IF out.abort
          THEN pc' = "abort" /\ UNCHANGED <<partial, pending>>
          ELSE /\ partial' = [partial EXCEPT ![PartialSlot(i)] = out.val]
               /\ pending' = pending \ {i}
               /\ pc' = pc
    /\ UNCHANGED <<winVars, loopVars, wnafVars, fixedVars, specialVars, inputVars, entry, g, p, acc, ret>>

\* after the loop: the partial results are summed in index order
Join ==
    /\ pc = "workers"
    /\ pending = {}
    /\ ret' = [best |-> 0,
               val |-> IF entry = "mixed" THEN Add(acc, SumPartial(partial, 1, zero))
                       ELSE SumPartial(partial, 1, zero)]
    /\ pc' = "done"
    /\ UNCHANGED <<winVars, loopVars, wnafVars, fixedVars, specialVars, msmVars>>

NextMsm ==
    \/ MultiExp
    \/ MultiExpWithMixedAddition
    \/ \E i \in 0 .. MaxLen : Worker(i)
    \/ Join

SpecMsm == InitMsm /\ [][NextMsm]_vars
---------------------------------------------------------------------------
(* Claims about multi_exp and multi_exp_with_mixed_addition *)

\* the sum of scalars[i] * vec_[i] by the group's generic scalar multiply
RECURSIVE GenericSum(_, _, _)
GenericSum(vec_, scalars, i) ==
    IF i > Len(vec_) THEN zero
    ELSE Add(ScalarMul(scalars[i], vec_[i]), GenericSum(vec_, scalars, i + 1))

\* the values multi_exp_inner may return on the whole input
UnchunkedValues(m, vec_, scalars, default) ==
    {out.val : out \in multi_exp_inner(m, vec_, scalars, Len(scalars), default)}

\* the values multi_exp may return when the chunks run one after the other
RECURSIVE ChunkedValues(_, _, _, _, _, _)
ChunkedValues(m, vec_, scalars, nchunks, default, i) ==
    IF i < 0 THEN {zero}
    ELSE {Add(final, v) :
            final \in ChunkedValues(m, vec_, scalars, nchunks, default, i - 1),
            v \in UnchunkedValues(m, ChunkOf(vec_, i, nchunks),
                                  ChunkOf(scalars, i, nchunks), default)}

SequentialValues(m, vec_, scalars, nchunks, default) ==
    IF Direct(Len(vec_), nchunks)
    THEN UnchunkedValues(m, vec_, scalars, default)
    ELSE ChunkedValues(m, vec_, scalars, nchunks, default, nchunks - 1)

ThreeMethods == {"naive", "BDLO12", "bos_coster"}

\* C1: on bases and scalars of equal length, multi_exp with method naive,
\* BDLO12 and bos_coster returns the sum of scalar_i * base_i of the generic
\* scalar multiply (so the three methods agree).
C1_MethodsReturnSum ==
    (pc = "done" /\ entry = "multi_exp" /\ chunks = 1 /\ method \in ThreeMethods)
        => ret.val = GenericSum(bases, exponents, 1)

\* C2: for every method, multi_exp on an input whose scalars are all zero,
\* the empty input included, returns the identity.
C2_ZeroScalarsGiveIdentity ==
    (/\ pc = "done" /\ entry = "multi_exp" /\ method \in ThreeMethods
     /\ \A i \in 1 .. Len(exponents) : exponents[i] = 0)
        => ret.val = zero

\* C3: for every method and every input of length L, multi_exp with chunks in
\* {1, 2, 4, 8, L} returns the element the unchunked call returns.
C3_ChunkInvariance ==
    (/\ pc = "done" /\ entry = "multi_exp" /\ method \in ThreeMethods
     /\ chunks \in {1, 2, 4, 8, Len(bases)})
        => UnchunkedValues(method, bases, exponents, dflt) = {ret.val}

\* C4: for every input, method and chunks, multi_exp_with_mixed_addition
\* returns the element multi_exp returns on the same input.
C4_MixedAdditionAgrees ==
    (pc = "done" /\ entry = "mixed" /\ method \in ThreeMethods)
        => SequentialValues(method, bases, exponents, chunks, dflt) = {ret.val}

\* C8: with the chunks run in any order, iteration i has written partial[i] and
\* nothing else (the slots of the iterations still to run hold the zero they
\* were built with, the others the result of their own slice), and the result
\* summed in index order is the result of running the chunks one after the other.
C8_WorkersIndependent ==
    /\ pc = "workers" =>
          /\ Len(partial) = chunks
          /\ \A i \in 0 .. (chunks - 1) :
                IF i \in pending
                THEN partial[i + 1] = zero
                ELSE UnchunkedValues(method, ChunkOf(g, i, chunks),
                                     ChunkOf(p, i, chunks), dflt) = {partial[i + 1]}
    /\ (pc = "done" /\ ~Direct(Len(g), chunks)) =>
          LET seq == SequentialValues(method, g, p, chunks, dflt)
          IN  seq = {IF entry = "mixed" THEN Sub(ret.val, acc) ELSE ret.val}

\* C8 witness: three chunks, the last two have run before the first, each on
\* a slice that gives a non-zero partial result.
C8_Witness ==
    /\ pc = "workers"
    /\ chunks >= 3
    /\ pending = {0}
    /\ partial[2] # zero
    /\ partial[3] # zero
    /\ partial[2] # partial[3]
---------------------------------------------------------------------------
(* Specification SpecMismatch: multi_exp (chunks = 1) and                   *)
(* multi_exp_with_mixed_addition called with bases and scalars of           *)
(* different lengths.                                                       *)

InitMismatch ==
    /\ pc = "call"
    /\ WinIdle
    /\ LoopIdle
    /\ WnafIdle
    /\ FixedIdle
    /\ SpecialIdle
    /\ bases \in SeqsUpTo({1, 5}, MaxLen)
    /\ exponents \in SeqsUpTo({0, 3}, MaxLen)
    /\ Len(bases) # Len(exponents)
    /\ method \in Methods
    /\ chunks = 1
    /\ dflt \in DefaultSet
    /\ entry = "none"
    /\ g = <<>> /\ p = <<>> /\ acc = zero
    /\ partial = <<>> /\ pending = {}
    /\ ret = NoRet

NextMismatch == MultiExp \/ MultiExpWithMixedAddition

SpecMismatch == InitMismatch /\ [][NextMismatch]_vars

\* C9: a call of multi_exp with bases and scalars of different lengths ends in
\* an assertion failure for every method, and returns no group element.
C9_MismatchAborts ==
    Len(bases) # Len(exponents) => pc # "done"

---------------------------------------------------------------------------
(* multiexp.tcc: get_exp_window_size *)

\* a scan that takes the last entry that num_scalars reaches, zero or not
RECURSIVE WindowFromAnyEntry(_, _, _)
WindowFromAnyEntry(table, n, i) ==
    IF i < 1 THEN 1
    ELSE IF n >= table[i] THEN i
    ELSE WindowFromAnyEntry(table, n, i - 1)

\* the loop over i from table.size()-1 down to 0; table[i] of the code is
\* table[i+1] here, so window = i+1 of the code is the index itself
RECURSIVE WindowFrom(_, _, _)
WindowFrom(table, n, i) ==
    IF i < 1 THEN 1
    ELSE IF table[i] # 0 /\ n >= table[i] THEN i
    ELSE WindowFrom(table, n, i - 1)

\* the value returned for an empty table: 14 under LOWMEM, else 17
DefaultWindow(low) == IF low THEN 14 ELSE 17

get_exp_window_size(table, n, low) ==
    IF Len(table) = 0 THEN DefaultWindow(low)
    ELSE LET window == WindowFrom(table, n, Len(table))
         IN  IF low /\ window > 14 THEN 14 ELSE window

---------------------------------------------------------------------------
(* Specification SpecWin: get_exp_window_size on every table and            *)
(* num_scalars of the bounded sets, with and without LOWMEM.                *)

\* largest num_scalars drawn as an input
MaxScalars == 16

\* the tables drawn as T::fixed_base_exp_window_table (entry w-1 is the
\* threshold of w, 0 marks a window that is never the best)
FixedBaseTables ==
    {<<>>, <<1>>, <<1, 4>>, <<2, 5>>, <<1, 3, 0>>, <<1, 0, 6, 0>>,
     <<1, 2, 3, 4, 5, 6, 7, 8, 9, 10, 11, 12, 13, 14, 15>>}

InitWin ==
    /\ pc = "call"
    /\ fixed_base_exp_window_table \in FixedBaseTables
    /\ num_scalars \in 0 .. MaxScalars
    /\ lowmem \in BOOLEAN
    /\ WnafIdle
    /\ FixedIdle
    /\ SpecialIdle
    /\ MsmIdle
    /\ LoopIdle
    /\ ret = NoRet

GetExpWindowSize ==
    /\ pc = "call"
    /\ ret' = [NoRet EXCEPT !.val = get_exp_window_size(fixed_base_exp_window_table,
                                                        num_scalars, lowmem)]
    /\ pc' = "done"
    /\ UNCHANGED <<wnafVars, fixedVars, specialVars, msmVars, winVars, loopVars>>

NextWin == GetExpWindowSize

SpecWin == InitWin /\ [][NextWin]_vars

\* the windows whose threshold num_scalars reaches, zero thresholds included
ReachedWindows(table, n) == {w \in 1 .. Len(table) : table[w] <= n}

\* the windows whose threshold is set (non-zero) and reached by num_scalars
ReachedSetWindows(table, n) == {w \in 1 .. Len(table) : table[w] # 0 /\ table[w] <= n}

\* C11 as stated: get_exp_window_size returns the largest w whose threshold
\* fixed_base_exp_window_table[w-1] is <= num_scalars, and the compile-time
\* default (17, or 14 under LOWMEM) when the table is empty.
C11_LargestReached ==
    pc = "done" =>
        /\ fixed_base_exp_window_table = <<>> => ret.val = DefaultWindow(lowmem)
        /\ ReachedWindows(fixed_base_exp_window_table, num_scalars) # {} =>
               ret.val = SetMax(ReachedWindows(fixed_base_exp_window_table, num_scalars))

\* C11 amended: get_exp_window_size returns the largest w whose threshold is
\* non-zero and <= num_scalars, 1 when there is no such w, the result capped
\* at 14 under LOWMEM; and the compile-time default when the table is empty.
C11_LargestSetReached ==
    pc = "done" =>
        LET fit == ReachedSetWindows(fixed_base_exp_window_table, num_scalars)
            w == IF fit = {} THEN 1 ELSE SetMax(fit)
        IN  IF fixed_base_exp_window_table = <<>>
            THEN ret.val = DefaultWindow(lowmem)
            ELSE ret.val = (IF lowmem /\ w > 14 THEN 14 ELSE w)

\* C11 witness: the call returned a window w > 1 although the table holds a
\* zero threshold at a larger window, which num_scalars reaches as well.
C11_Witness ==
    /\ pc = "done"
    /\ \E w \in 1 .. Len(fixed_base_exp_window_table) :
          /\ fixed_base_exp_window_table[w] = 0
          /\ ret.val < w
          /\ ret.val > 1
          /\ ret.val \in ReachedSetWindows(fixed_base_exp_window_table, num_scalars)

---------------------------------------------------------------------------
(* Specification SpecWidth: the window width c method BDLO12 chooses, on    *)
(* every length of the bounded set.                                         *)

\* largest length drawn as an input
MaxLength == 64

InitWidth ==
    /\ pc = "call"
    /\ WinIdle
    /\ \E len \in 0 .. MaxLength : bdlo = [NoBdlo EXCEPT !.length = len]
    /\ windows = <<>>
    /\ bos = NoBos
    /\ WnafIdle
    /\ FixedIdle
    /\ SpecialIdle
    /\ MsmIdle
    /\ ret = NoRet

\* size_t log2_length = log2(length); size_t c = ...
ChooseWindowWidth ==
    /\ pc = "call"
    /\ bdlo' = [bdlo EXCEPT !.c = WindowWidth(bdlo.length)]
    /\ pc' = "done"
    /\ UNCHANGED <<wnafVars, fixedVars, specialVars, msmVars, winVars, windows, bos, ret>>

NextWidth == ChooseWindowWidth

SpecWidth == InitWidth /\ [][NextWidth]_vars

\* floor(log2 n) and ceil(log2 n) for n >= 1
FloorLog2(n) == CHOOSE e \in 0 .. SizeBits : Pow2(e) <= n /\ n < Pow2(e + 1)
CeilLog2(n) == CHOOSE e \in 0 .. SizeBits : Pow2(e) >= n /\ (e = 0 \/ Pow2(e - 1) < n)

\* l - (l/3 - 2) over the integers
WidthOf(l) == l - ((l \div 3) - 2)

\* C12 as stated: for every length L >= 1 the width is
\* c = floor(log2 L) - (floor(log2 L)/3 - 2), and c >= 1.
C12_WidthFromFloor ==
    (pc = "done" /\ bdlo.length >= 1) =>
        /\ bdlo.c = WidthOf(FloorLog2(bdlo.length))
        /\ bdlo.c >= 1

\* C12 amended: for every length L >= 1 the width is
\* c = ceil(log2 L) - (ceil(log2 L)/3 - 2), and c >= 1.
C12_WidthFromCeil ==
    (pc = "done" /\ bdlo.length >= 1) =>
        /\ bdlo.c = WidthOf(CeilLog2(bdlo.length))
        /\ bdlo.c >= 1

\* C12 witness: the width was chosen for a length that is not a power of
\* two, and it is the width of ceil(log2 L) and not that of floor(log2 L).
C12_Witness ==
    /\ pc = "done"
    /\ bdlo.length >= 1
    /\ CeilLog2(bdlo.length) # FloorLog2(bdlo.length)
    /\ bdlo.c = WidthOf(CeilLog2(bdlo.length))
    /\ bdlo.c # WidthOf(FloorLog2(bdlo.length))

---------------------------------------------------------------------------
(* Further claims about find_wnaf and fixed_window_wnaf_exp, checked under  *)
(* SpecWnaf                                                                 *)

\* C13: for every window width w >= 1 and scalar s, any two non-zero digits
\* of find_wnaf(w, s) are separated by at least w zero digits.
C13_NonAdjacent ==
    pc # "call" =>
        \A i, j \in 1 .. Len(naf) :
            (i < j /\ naf[i] # 0 /\ naf[j] # 0) => j - i - 1 >= window_size

\* C13 witness: the digits hold two non-zero digits with exactly w zero
\* digits between them.
C13_Witness ==
    /\ pc # "call"
    /\ \E i, j \in 1 .. Len(naf) :
          /\ j - i - 1 = window_size
          /\ naf[i] # 0 /\ naf[j] # 0

\* C14 as stated: the digit sequence returned by find_wnaf(w, s) has length
\* at most num_bits(s) + 1.
C14_LengthAtMostNumBits ==
    pc # "call" => Len(naf) <= num_bits(scalar) + 1

\* C14 amended: the vector returned by find_wnaf(w, s) has max_bits + 1
\* entries, and every entry at an index above num_bits(s) is zero.
C14_DigitsWithinNumBits ==
    pc # "call" =>
        /\ Len(naf) = max_bits + 1
        /\ \A j \in 1 .. Len(naf) : j - 1 > num_bits(scalar) => naf[j] = 0

\* C14 witness: the vector is longer than num_bits(s) + 1 and its digit at
\* index num_bits(s) is not zero.
C14_Witness ==
    /\ pc # "call"
    /\ Len(naf) > num_bits(scalar) + 1
    /\ naf[num_bits(scalar) + 1] # 0

\* C16: for every window width w >= 1, base P and scalar s,
\* fixed_window_wnaf_exp(w, P, s) builds the table tbl[i] = (2i+1) * P for
\* i in [0, 2^(w-1)) and returns s * P.
C16_FixedWindowExp ==
    pc = "done" =>
        /\ \A i \in 0 .. (Pow2(window_size - 1) - 1) :
               OddTable(window_size, base)[i + 1] = ScalarMul(2 * i + 1, base)
        /\ ret.val = ScalarMul(scalar, base)

---------------------------------------------------------------------------
(* Specification SpecBos: method bos_coster step by step, one action for    *)
(* the code up to while (true) and one for each iteration of the loop.      *)

\* largest number of (base, scalar) pairs drawn as an input of SpecBos
MaxBosLen == 4

\* the (base, scalar) pairs the inputs of SpecBos are made of
BosPairSet == {<<1, 0>>, <<1, 3>>, <<5, 12>>, <<0, 9>>}

InitBos ==
    /\ pc = "call"
    /\ WinIdle
    /\ LoopIdle
    /\ WnafIdle
    /\ FixedIdle
    /\ SpecialIdle
    /\ \E in \in SeqsUpTo(BosPairSet, MaxBosLen) :
          /\ bases = [i \in 1 .. Len(in) |-> in[i][1]]
          /\ exponents = [i \in 1 .. Len(in) |-> in[i][2]]
    /\ method = "bos_coster"
    /\ chunks = 1
    /\ dflt = zero
    /\ entry = "none"
    /\ g = <<>> /\ p = <<>> /\ acc = zero
    /\ partial = <<>> /\ pending = {}
    /\ ret = NoRet

\* the code before while (true): the two early returns, or the heap that
\* std::make_heap built, padded to an odd length
BosCosterEnter ==
    /\ pc = "call"
    /\ IF Len(bases) = 0
       THEN /\ ret' = [NoRet EXCEPT !.val = zero]
            /\ pc' = "done"
            /\ UNCHANGED bos
       ELSE IF Len(bases) = 1
       THEN /\ ret' = [NoRet EXCEPT !.val = ScalarMul(exponents[1], bases[1])]
            /\ pc' = "done"
            /\ UNCHANGED bos
       ELSE /\ \E h \in MakeHeaps([i \in 1 .. Len(bases) |->
                                      ordered_exponent(i - 1, exponents[i])]) :
                  bos' = BosCosterStart(bases, h)
            /\ pc' = "loop"
            /\ UNCHANGED ret
    /\ UNCHANGED <<wnafVars, fixedVars, specialVars, msmVars, winVars, bdlo, windows>>

\* one iteration of while (true); the break leads to return opt_result
BosCosterIteration ==
    /\ pc = "loop"
    /\ bos' = BosCosterStep(bos)
    /\ IF bos'.done
       THEN pc' = "done" /\ ret' = [NoRet EXCEPT !.val = bos'.opt_result]
       ELSE pc' = "loop" /\ UNCHANGED ret
    /\ UNCHANGED <<wnafVars, fixedVars, specialVars, msmVars, winVars, bdlo, windows>>

NextBos == BosCosterEnter \/ BosCosterIteration

SpecBos == InitBos /\ [][NextBos]_vars

\* the routine runs on one thread that is never stopped.  The code before
\* the loop is the only step that leaves pc = "call", and it always does;
\* an iteration is enabled exactly when pc = "loop", and its weak fairness
\* is written out with this enabling condition.
SpecBosFair ==
    /\ SpecBos
    /\ WF_pc(pc = "call" /\ pc' \in {"loop", "done"})
    /\ ([]<>(pc # "loop") \/ []<><<BosCosterIteration>>_vars)

\* C15: at the start of every iteration of the loop opt_q, of odd length, is
\* a max-heap on the residuals, so the root residual a.r is >= the residual
\* b.r of its larger child and a.r - b.r does not underflow.
C15_HeapAtLoopStart ==
    pc = "loop" =>
        /\ Len(bos.opt_q) % 2 = 1
        /\ IsHeap(bos.opt_q, Len(bos.opt_q))
        /\ bos.opt_q[1].r >= bos.opt_q[LargerChild(bos.opt_q)].r
        /\ mpn_sub_n(bos.opt_q[1].r, bos.opt_q[LargerChild(bos.opt_q)].r)
               = bos.opt_q[1].r - bos.opt_q[LargerChild(bos.opt_q)].r

\* C15 witness: the loop is at the start of an iteration, on a heap of more
\* than three nodes, after a reduction step left a residual that is none of
\* the scalars of the input.
C15_Witness ==
    /\ pc = "loop"
    /\ Len(bos.opt_q) > 3
    /\ \E pos \in 1 .. Len(bos.opt_q) :
          /\ bos.opt_q[pos].r # 0
          /\ \A i \in 1 .. Len(exponents) : exponents[i] # bos.opt_q[pos].r

RECURSIVE HeapSum(_, _, _)
\* the sum over the heap nodes q of q.r * g[q.idx]
HeapSum(q, gs, pos) ==
    IF pos > Len(q) THEN zero
    ELSE Add(ScalarMul(q[pos].r, gs[q[pos].idx + 1]), HeapSum(q, gs, pos + 1))

\* C18: at the start of every iteration of the loop, opt_result plus the sum
\* over the heap nodes q of q.r * g[q.idx] equals the sum of s_i * P_i of
\* the input.
C18_SumInvariant ==
    pc = "loop" =>
        Add(bos.opt_result, HeapSum(bos.opt_q, bos.g, 1)) = GenericSum(bases, exponents, 1)

\* C18 witness: at the start of an iteration a direct finish has already
\* added to opt_result, a reduction has already changed a base, and a
\* residual is still to be processed.
C18_Witness ==
    /\ pc = "loop"
    /\ bos.opt_result # zero
    /\ \E i \in 1 .. Len(bases) : bos.g[i] # bases[i]
    /\ \E pos \in 1 .. Len(bos.opt_q) : bos.opt_q[pos].r # 0

RECURSIVE ResidualSum(_, _)
\* the sum of the residuals in the heap
ResidualSum(q, pos) == IF pos > Len(q) THEN 0 ELSE q[pos].r + ResidualSum(q, pos + 1)

\* C19: for every input of length >= 2 the loop terminates: every iteration
\* that does not exit strictly decreases the sum of the residuals in the
\* heap, and the loop is eventually left through the break.
C19_LoopTerminates ==
    /\ [][(pc = "loop" /\ pc' = "loop") =>
             ResidualSum(bos'.opt_q, 1) < ResidualSum(bos.opt_q, 1)]_vars
    /\ (Len(bases) >= 2) ~> (pc = "done" /\ bos.done)

\* C19 witness: the loop was left through the break after both a direct
\* finish and a reduction ran on an input of length >= 2.
C19_Witness ==
    /\ pc = "done"
    /\ Len(bases) >= 2
    /\ bos.done
    /\ \E i \in 1 .. Len(bases) : bos.g[i] # bases[i]
    /\ ret.val # ScalarMul(bos.opt_q[1].r, bos.g[bos.opt_q[1].idx + 1])

---------------------------------------------------------------------------
(* Specification SpecBdlo: method BDLO12 step by step, one action for the   *)
(* code before the loop over k, one for each iteration and one for the      *)
(* return.                                                                  *)

\* a loop condition that holds for every value of an unsigned counter
WindowLoopRunsFromZero(kk, ng) == kk >= 0

\* the condition of for (size_t k = num_groups - 1; k <= num_groups; k--)
WindowLoopRuns(kk, ng) == kk <= ng

InitBdlo ==
    /\ pc = "call"
    /\ WinIdle
    /\ LoopIdle
    /\ WnafIdle
    /\ FixedIdle
    /\ SpecialIdle
    /\ \E in \in SeqsUpTo(PairSet, MaxLen) :
          /\ bases = [i \in 1 .. Len(in) |-> in[i][1]]
          /\ exponents = [i \in 1 .. Len(in) |-> in[i][2]]
    /\ method = "BDLO12"
    /\ chunks = 1
    /\ dflt \in DefaultSet
    /\ entry = "none"
    /\ g = <<>> /\ p = <<>> /\ acc = zero
    /\ partial = <<>> /\ pending = {}
    /\ ret = NoRet

\* the code before the loop: length, c, num_groups, T result, and the
\* initial value num_groups - 1 of the counter
BDLO12Enter ==
    /\ pc = "call"
    /\ LET len == Len(bases)
           width == WindowWidth(len)
           groups == NumGroups(MaxNumBits(exponents, len, 0, 0), width)
       IN  bdlo' = [length |-> len, c |-> width, num_groups |-> groups,
                    k |-> SizeT(groups - 1),
                    result |-> dflt, result_nonzero |-> FALSE]
    /\ pc' = "loop"
    /\ UNCHANGED <<wnafVars, fixedVars, specialVars, msmVars, winVars, windows, bos, ret>>

\* one iteration of the loop over k, and k--
BDLO12Iteration ==
    /\ pc = "loop"
    /\ WindowLoopRuns(bdlo.k, bdlo.num_groups)
    /\ LET res == BDLO12Window(bases, exponents, bdlo.c, bdlo.k, dflt,
                               [result |-> bdlo.result,
                                result_nonzero |-> bdlo.result_nonzero])
       IN  bdlo' = [bdlo EXCEPT !.result = res.result,
                                !.result_nonzero = res.result_nonzero,
                                !.k = SizeT(bdlo.k - 1)]
    /\ windows' = Append(windows, bdlo.k)
    /\ UNCHANGED <<pc, wnafVars, fixedVars, specialVars, msmVars, winVars, bos, ret>>

\* the loop condition fails: return result
BDLO12Return ==
    /\ pc = "loop"
    /\ ~WindowLoopRuns(bdlo.k, bdlo.num_groups)
    /\ ret' = [NoRet EXCEPT !.val = bdlo.result]
    /\ pc' = "done"
    /\ UNCHANGED <<wnafVars, fixedVars, specialVars, msmVars, winVars, loopVars>>

NextBdlo == BDLO12Enter \/ BDLO12Iteration \/ BDLO12Return

SpecBdlo == InitBdlo /\ [][NextBdlo]_vars

\* the routine runs on one thread that is never stopped.  The code before
\* the loop is the only step that leaves pc = "call", and it always does;
\* an iteration is enabled exactly when pc = "loop" and the loop condition
\* holds, and its weak fairness is written out with this enabling condition.
SpecBdloFair ==
    /\ SpecBdlo
    /\ WF_pc(pc = "call" /\ pc' \in {"loop"})
    /\ WF_vars(BDLO12Return)
    /\ \/ []<>(~(pc = "loop" /\ WindowLoopRuns(bdlo.k, bdlo.num_groups)))
       \/ []<><<BDLO12Iteration>>_vars

\* the scalars with their low bits (those of the windows not processed yet)
\* shifted out
HighParts(scalars, bits) == [i \in 1 .. Len(scalars) |-> scalars[i] \div Pow2(bits)]

\* the windows the loop has run so far are num_groups-1, num_groups-2, ..
\* in this order; result is initialised exactly when a window has run, and
\* then it is the sum the windows processed so far stand for
WindowsInOrder ==
    pc \in {"loop", "done"} =>
        /\ Len(windows) <= bdlo.num_groups
        /\ \A i \in 1 .. Len(windows) : windows[i] = bdlo.num_groups - i
        /\ pc = "done" => Len(windows) = bdlo.num_groups
        /\ bdlo.result_nonzero <=> Len(windows) >= 1
        /\ bdlo.result_nonzero =>
               bdlo.result =
                   GenericSum(bases,
                              HighParts(exponents,
                                        bdlo.c * (bdlo.num_groups - Len(windows))), 1)
        /\ ~bdlo.result_nonzero => bdlo.result = dflt

\* C17: the window loop, whose unsigned counter starts at num_groups - 1 and
\* is decremented past zero, processes exactly the windows num_groups-1,
\* .., 0, each once and in that order, and then terminates; it processes no
\* window when num_groups = 0; and a window finds result initialised, and
\* doubles it c times, exactly when a previous window has run.
C17_WindowLoop ==
    /\ []WindowsInOrder
    /\ <>(pc = "done")

\* C17 witness: the call returned after the loop ran two windows, 1 and
\* then 0, and the counter wrapped around.
C17_Witness ==
    /\ pc = "done"
    /\ windows = <<1, 0>>
    /\ bdlo.k = Pow2(SizeBits) - 1
    /\ bdlo.result_nonzero
    /\ ret.val # zero

===========================================================================
